---- MODULE Spec2Model ----
(***************************************************************************)
(* The URL registry of the URL shortener (URLService, src/unnamed/part_000)*)
(* as a state machine.                                                     *)
(*                                                                         *)
(* Records are JavaScript objects: `objs` is the heap of the record        *)
(* objects ever created (a record's index in objs is its reference) and    *)
(* `urls` is this.urls, the array of references.  A record that            *)
(* deleteExpiredURLs filtered out stays in the heap for as long as a       *)
(* suspended recordClick still holds its reference.                        *)
(*                                                                         *)
(* recordClick is an async function with one await (the location lookup):  *)
(* it is two steps, RecordClick (up to the await) and RecordClickResume    *)
(* (after it), and every other operation may run between the two.  Every   *)
(* other operation is synchronous and is one step.                         *)
(*                                                                         *)
(* Times are milliseconds since the start of the run.  Spec is the         *)
(* registry with createShortURL as one step and without the logger; the    *)
(* loop of createShortURL, the logger (src/unnamed/part_001) and the       *)
(* redirect page (src/src/pages/Statistics.jsx) have specifications of     *)
(* their own further down, over the same variables.                        *)
(***************************************************************************)
EXTENDS Integers, Sequences, FiniteSets, Bags, TLC

VARIABLES
    now,        \* the wall clock read by new Date() and Date.now()
    ticks,      \* how many times the clock has advanced
    objs,       \* the heap of record objects, by reference
    urls,       \* this.urls: the references of the records in the registry
    stored,     \* localStorage['shortened_urls']
    pending,    \* the recordClick calls suspended in await getLocationData()
    started,    \* how many recordClick calls went past their expiry check
    completed,  \* per record object: the recordClick calls that returned it
    failures,   \* how many times localStorage.setItem has thrown
    ret,        \* the outcome of the last call that returned or threw
    gen,        \* the do-while loop of createShortURL: its position and shortCode
    logs,       \* logger.logs, newest entry first
    appLogs,    \* localStorage['app_logs']
    sinkFailures,   \* how many times the setItem of Logger.log has thrown
    handler,    \* a run of RedirectHandler.handleRedirect and the component's state
    form        \* URLForm: its fields (the state urls) and a run of handleSubmit

vars == <<now, ticks, objs, urls, stored, pending, started, completed, failures, ret,
          gen, logs, appLogs, sinkFailures, handler, form>>

----------------------------------------------------------------------------
(* Bounds of the model. *)

MaxObjs == 2        \* createShortURL calls
MaxClicks == 2      \* recordClick calls that reach the await
MaxTicks == 2       \* advances of the clock
MaxWriteFailures == 1   \* localStorage.setItem calls that throw
MaxDraw == 1        \* Math.random() draws are the indexes 0..MaxDraw
MaxLogCalls == 1002     \* calls of Logger.log in SpecLogger
MaxSinkFailures == 1    \* localStorage.setItem calls of Logger.log that throw
MaxLoggedCalls == 3     \* registry calls, each with its log entry, in SpecLog

\* The clock advances by a millisecond or by a minute.
TickSteps == {1, 60000}

----------------------------------------------------------------------------
(* Strings are tuples of one-character strings. *)

Lower == {"a","b","c","d","e","f","g","h","i","j","k","l","m",
          "n","o","p","q","r","s","t","u","v","w","x","y","z"}
Upper == {"A","B","C","D","E","F","G","H","I","J","K","L","M",
          "N","O","P","Q","R","S","T","U","V","W","X","Y","Z"}
Digit == {"0","1","2","3","4","5","6","7","8","9"}

\* chars of generateShortCode, as a sequence (charAt is 0-based).
chars == <<"a","b","c","d","e","f","g","h","i","j","k","l","m",
           "n","o","p","q","r","s","t","u","v","w","x","y","z",
           "A","B","C","D","E","F","G","H","I","J","K","L","M",
           "N","O","P","Q","R","S","T","U","V","W","X","Y","Z",
           "0","1","2","3","4","5","6","7","8","9">>

\* generateShortCode with a random source that always gives 0.
generateShortCodeFixed(draw) == [i \in 1..6 |-> chars[1]]

\* generateShortCode(length = 6) for one value of Math.random(): the model
\* draws the same index for each of the six characters.
generateShortCode(draw) == [i \in 1..6 |-> chars[draw + 1]]

Alnum == Lower \cup Upper \cup Digit

\* /^[a-zA-Z0-9]+$/.test(code)
MatchesAlnum(code) ==
    /\ Len(code) >= 1
    /\ \A i \in 1..Len(code) : code[i] \in Alnum

\* new URL(url) without a base: the string needs a scheme, and a special
\* scheme (http, https) needs a host.
isValidURL(url) ==
    /\ url.scheme # ""
    /\ (url.scheme \in {"http", "https"} => url.host # "")

\* Date.prototype.toISOString and new Date(isoString): the string carries
\* the date and time to the second and the three-digit millisecond field.
toISOString(t) == <<t \div 1000, t % 1000>>
DateParse(iso) == iso[1] * 1000 + iso[2]

----------------------------------------------------------------------------
(* Inputs. *)

URLInputs ==
    { [scheme |-> "https", host |-> "example.com"],
      [scheme |-> "", host |-> "not-a-url"],
      [scheme |-> "https", host |-> ""] }

\* validityMinutes: an integer n, a number that is no integer (1.5), or an
\* integer so large that now + n * 60 * 1000 is beyond the range of Date.
ValidityInputs ==
    { [t |-> "int", n |-> n] : n \in {0, 1, 2} }
        \cup { [t |-> "frac", n |-> 1], [t |-> "huge", n |-> 0] }

\* customShortCode: null (given = FALSE) or a string.
NoCode == [given |-> FALSE, code |-> <<>>]
Custom(code) == [given |-> TRUE, code |-> code]
TooLong == [i \in 1..21 |-> "a"]
CodeStrings == { <<>>, generateShortCode(0), generateShortCode(1), <<"a", "-">>, TooLong }
CustomInputs == {NoCode} \cup { Custom(c) : c \in CodeStrings }

\* The calls of createShortURL: every custom code and validity with a valid
\* URL, and with each malformed URL the arguments that fail a later check too
\* or none.
CreateInputs ==
    ({ u \in URLInputs : isValidURL(u) } \X CustomInputs \X ValidityInputs)
    \cup ({ u \in URLInputs : ~ isValidURL(u) }
            \X {NoCode, Custom(generateShortCode(0)), Custom(<<"a", "-">>)}
            \X {[t |-> "int", n |-> 0], [t |-> "int", n |-> 1]})

Sources == {"direct"}

\* The values of Math.random() in getLocationData, as indexes of mockLocations.
LocationDraws == {0}

----------------------------------------------------------------------------
(* The error messages. *)

ErrInvalidURL == "Invalid URL format"
ErrInvalidValidity == "Validity period must be a positive integer"
ErrInvalidShortcodeFormat == "Custom shortcode must be alphanumeric and max 20 characters"
ErrShortcodeConflict == "Custom shortcode already exists"
ErrInvalidTime == "Invalid time value"
ErrNotFound == "URL not found"
ErrExpired == "URL has expired"
\* The TypeError of a call of some, find, sort or filter on a value that has
\* no such method.
ErrTypeError == "this.urls.some is not a function"
\* The exception of a localStorage.setItem that fails.
ErrQuota == "QuotaExceededError"

----------------------------------------------------------------------------
(* The registry. *)

Range(s) == { s[i] : i \in 1..Len(s) }

\* The records of the registry, in the order of this.urls.
Records == [i \in 1..Len(urls) |-> objs[urls[i]]]

\* JSONRecord that loses the clicks of the record.
JSONRecordNoClicks(r) == [r EXCEPT !.clicks = <<>>]

\* JSON.stringify of an array of records and JSON.parse of the result: every
\* field is a number, a string or an array of click objects, so each comes
\* back as it was written.
JSONRecord(r) ==
    [ id |-> r.id, originalURL |-> r.originalURL, shortCode |-> r.shortCode,
      shortURL |-> r.shortURL, createdAt |-> r.createdAt,
      expiresAt |-> r.expiresAt, validityMinutes |-> r.validityMinutes,
      clicks |-> [i \in 1..Len(r.clicks) |->
                    [ id |-> r.clicks[i].id,
                      timestamp |-> r.clicks[i].timestamp,
                      source |-> r.clicks[i].source,
                      location |-> r.clicks[i].location,
                      userAgent |-> r.clicks[i].userAgent ]],
      totalClicks |-> r.totalClicks ]

JSONStringify(refs, heap) ==
    [kind |-> "array", recs |-> [i \in 1..Len(refs) |-> JSONRecord(heap[refs[i]])]]

\* The value under 'shortened_urls' is absent, or text that JSON.parse
\* rejects, or the JSON of null, of an object that is no array, or of an
\* array of records.  loadURLs gives the value that becomes this.urls:
\* an absent blob is falsy and gives []; text that does not parse throws in
\* JSON.parse, and null throws at urls.length, and the catch returns [];
\* every other parsed value has a length property, or undefined for it, and
\* is returned as it is.
BlobKinds == {"absent", "unparsable", "null", "object", "array"}
EmptyArray == [kind |-> "array", recs |-> <<>>]
loadURLs(blob) ==
    CASE blob.kind = "absent" -> EmptyArray
      [] blob.kind = "unparsable" -> EmptyArray
      [] blob.kind = "null" -> EmptyArray
      [] blob.kind = "object" -> [kind |-> "object", recs |-> <<>>]
      [] blob.kind = "array" -> [kind |-> "array", recs |-> blob.recs]

\* saveURLs that removes the item when the write throws.
saveURLsRemoveOnFailure(refs, heap, writeOK) ==
    IF writeOK THEN JSONStringify(refs, heap) ELSE [kind |-> "absent", recs |-> <<>>]

\* saveURLs called before the mutation: it writes this.urls as it was.
saveURLsBefore(refs, heap, writeOK) ==
    IF writeOK THEN JSONStringify(urls, objs) ELSE stored

\* saveURLs: localStorage.setItem may throw (quota, storage disabled); the
\* catch absorbs it and the blob keeps its content.
saveURLs(refs, heap, writeOK) ==
    IF writeOK THEN JSONStringify(refs, heap) ELSE stored

\* isShortCodeUnique that finds no record.
isShortCodeUniqueAlways(shortCode) == TRUE

\* isShortCodeUnique that remembers the codes of the records swept since.
isShortCodeUniqueEver(shortCode) ==
    ~ \E r \in 1..Len(objs) : objs[r].shortCode = shortCode

isShortCodeUnique(shortCode) ==
    ~ \E i \in 1..Len(urls) : objs[urls[i]].shortCode = shortCode

\* if (customShortCode): null and the empty string are falsy.
Truthy(custom) == custom.given /\ custom.code # <<>>

\* !Number.isInteger(validityMinutes) || validityMinutes <= 0
IsInteger(validityMinutes) == validityMinutes.t # "frac"
IsNotPositive(validityMinutes) == validityMinutes.t # "huge" /\ validityMinutes.n <= 0

\* createError with the validity check ahead of the URL check.
createErrorValidityFirst(originalURL, customShortCode, validityMinutes) ==
    IF ~ IsInteger(validityMinutes) \/ IsNotPositive(validityMinutes)
        THEN ErrInvalidValidity
    ELSE IF ~ isValidURL(originalURL) THEN ErrInvalidURL
    ELSE IF Truthy(customShortCode)
            /\ (~ MatchesAlnum(customShortCode.code) \/ Len(customShortCode.code) > 20)
        THEN ErrInvalidShortcodeFormat
    ELSE IF Truthy(customShortCode) /\ ~ isShortCodeUnique(customShortCode.code)
        THEN ErrShortcodeConflict
    ELSE IF validityMinutes.t = "huge" THEN ErrInvalidTime
    ELSE ""

\* The throw statements of createShortURL in their order, then the
\* RangeError of expiryDate.toISOString() on an invalid date; "" when the
\* call goes through.
createError(originalURL, customShortCode, validityMinutes) ==
    IF ~ isValidURL(originalURL) THEN ErrInvalidURL
    ELSE IF ~ IsInteger(validityMinutes) \/ IsNotPositive(validityMinutes)
        THEN ErrInvalidValidity
    ELSE IF Truthy(customShortCode)
            /\ (~ MatchesAlnum(customShortCode.code) \/ Len(customShortCode.code) > 20)
        THEN ErrInvalidShortcodeFormat
    ELSE IF Truthy(customShortCode) /\ ~ isShortCodeUnique(customShortCode.code)
        THEN ErrShortcodeConflict
    ELSE IF validityMinutes.t = "huge" THEN ErrInvalidTime
    ELSE ""

\* urlData with the expiry offset in seconds instead of milliseconds.
urlDataSeconds(originalURL, shortCode, validityMinutes) ==
    [ id |-> now,
      originalURL |-> originalURL,
      shortCode |-> shortCode,
      shortURL |-> <<"http://localhost:3000/">> \o shortCode,
      createdAt |-> toISOString(now),
      expiresAt |-> toISOString(now + validityMinutes * 60),
      validityMinutes |-> validityMinutes,
      clicks |-> <<>>,
      totalClicks |-> 0 ]

\* urlData with the validity subtracted from now instead of added to it.
urlDataBefore(originalURL, shortCode, validityMinutes) ==
    [ id |-> now,
      originalURL |-> originalURL,
      shortCode |-> shortCode,
      shortURL |-> <<"http://localhost:3000/">> \o shortCode,
      createdAt |-> toISOString(now),
      expiresAt |-> toISOString(now - validityMinutes * 60 * 1000),
      validityMinutes |-> validityMinutes,
      clicks |-> <<>>,
      totalClicks |-> 0 ]

\* const urlData = {...}.  id is Date.now() + Math.random(): the model keeps
\* Date.now() and leaves out the fraction, which no code reads.
urlData(originalURL, shortCode, validityMinutes) ==
    [ id |-> now,
      originalURL |-> originalURL,
      shortCode |-> shortCode,
      shortURL |-> <<"http://localhost:3000/">> \o shortCode,
      createdAt |-> toISOString(now),
      expiresAt |-> toISOString(now + validityMinutes * 60 * 1000),
      validityMinutes |-> validityMinutes,
      clicks |-> <<>>,
      totalClicks |-> 0 ]

NoRet == [op |-> "none", error |-> "", ref |-> 0, count |-> 0, saved |-> "none"]
Threw(op, error) == [NoRet EXCEPT !.op = op, !.error = error]
Returned(op, ref, count, saved) ==
    [op |-> op, error |-> "", ref |-> ref, count |-> count, saved |-> saved]
Saved(writeOK) == IF writeOK THEN "ok" ELSE "failed"

\* The outcomes of localStorage.setItem that the model still allows.
WriteOutcomes == IF failures < MaxWriteFailures THEN {TRUE, FALSE} ELSE {TRUE}
Failed(writeOK) == IF writeOK THEN failures ELSE failures + 1

\* No createShortURL is in its loop, nothing is logged, no redirect page is
\* mounted.
NoGen ==
    [ pc |-> "idle", originalURL |-> [scheme |-> "", host |-> ""], shortCode |-> <<>>,
      validityMinutes |-> [t |-> "int", n |-> 0] ]
NoHandler == [pc |-> "idle", status |-> "loading", shortCode |-> <<>>, url |-> 0, urlData |-> 0]
\* Date.now() as the id of a form field: a value of the clock, which is never
\* the literal 1 of the first field.
DateNow == [clock |-> TRUE, n |-> now]
\* { id, originalURL: '', validityMinutes: 30, customShortCode: '' }
DefaultValidity == 30
BlankField(id) ==
    [ id |-> id, originalURL |-> [scheme |-> "", host |-> ""],
      validityMinutes |-> [t |-> "int", n |-> DefaultValidity], customShortCode |-> <<>> ]
\* URLForm as mounted: one blank field with id 1, no handleSubmit running.
\* index counts the calls of createShortURL of the last handleSubmit, results
\* is its array results, passed what it gave to onURLsCreated.
NoForm ==
    [ pc |-> "idle", urls |-> <<BlankField([clock |-> FALSE, n |-> 1])>>,
      index |-> 0, results |-> <<>>, passed |-> <<>> ]
InitRest ==
    /\ gen = NoGen
    /\ logs = <<>>
    /\ appLogs = [kind |-> "absent", recs |-> <<>>]
    /\ sinkFailures = 0
    /\ handler = NoHandler
    /\ form = NoForm
rest == <<gen, logs, appLogs, sinkFailures, handler, form>>

Init ==
    /\ InitRest
    /\ now = 0
    /\ ticks = 0
    /\ objs = <<>>
    /\ urls = <<>>
    /\ stored = [kind |-> "absent", recs |-> <<>>]
    /\ pending = EmptyBag
    /\ started = 0
    /\ completed = <<>>
    /\ failures = 0
    /\ ret = NoRet

Tick ==
    /\ ticks < MaxTicks
    /\ \E d \in TickSteps : now' = now + d
    /\ ticks' = ticks + 1
    /\ UNCHANGED <<objs, urls, stored, pending, started, completed, failures, ret>>

\* The codes the do-while loop can end with: a generated code that no record
\* of the registry has.
GeneratedCodes ==
    { generateShortCode(d) : d \in 0..MaxDraw }
UniqueGeneratedCodes == { c \in GeneratedCodes : isShortCodeUnique(c) }

createShortURL(originalURL, customShortCode, validityMinutes) ==
    /\ Len(objs) < MaxObjs
    /\ LET error == createError(originalURL, customShortCode, validityMinutes)
       IN  IF error # ""
           THEN /\ ret' = Threw("createShortURL", error)
                /\ UNCHANGED <<objs, urls, stored, completed, failures>>
           ELSE \E shortCode \in IF Truthy(customShortCode)
                                    THEN {customShortCode.code}
                                    ELSE UniqueGeneratedCodes,
                   writeOK \in WriteOutcomes :
                    LET rec == urlData(originalURL, shortCode, validityMinutes.n)
                        ref == Len(objs) + 1
                    IN  /\ objs' = Append(objs, rec)
                        /\ urls' = Append(urls, ref)
                        /\ stored' = saveURLs(urls', objs', writeOK)
                        /\ failures' = Failed(writeOK)
                        /\ completed' = Append(completed, 0)
                        /\ ret' = Returned("createShortURL", ref, 0, Saved(writeOK))
    /\ UNCHANGED <<now, ticks, pending, started>>

\* getURLByShortCode that falls back to the first record of the registry.
getURLByShortCodeAny(shortCode) ==
    LET hits == { i \in 1..Len(urls) : objs[urls[i]].shortCode = shortCode }
    IN  IF hits # {} THEN urls[CHOOSE i \in hits : \A j \in hits : i <= j]
        ELSE IF urls = <<>> THEN 0 ELSE urls[1]

\* getURLByShortCode that does not find a record past its expiry.
getURLByShortCodeLive(shortCode) ==
    LET hits == { i \in 1..Len(urls) :
                    /\ objs[urls[i]].shortCode = shortCode
                    /\ now <= DateParse(objs[urls[i]].expiresAt) }
    IN  IF hits = {} THEN 0
        ELSE urls[CHOOSE i \in hits : \A j \in hits : i <= j]

\* getURLByShortCode: this.urls.find(...), the reference of the first record
\* with the code, 0 for undefined.
getURLByShortCode(shortCode) ==
    LET hits == { i \in 1..Len(urls) : objs[urls[i]].shortCode = shortCode }
    IN  IF hits = {} THEN 0
        ELSE urls[CHOOSE i \in hits : \A j \in hits : i <= j]

\* isURLExpired that compares the other way round.
isURLExpiredReversed(rec) == now < DateParse(rec.expiresAt)

\* isURLExpired with now >= expiry: expired at the instant of expiry.
isURLExpiredInclusive(rec) == now >= DateParse(rec.expiresAt)

\* isURLExpired: now > expiry, on the parsed dates.
isURLExpired(rec) == now > DateParse(rec.expiresAt)

mockLocations ==
    << "New York, US", "London, UK", "Tokyo, JP", "Sydney, AU",
       "Berlin, DE", "Toronto, CA", "Mumbai, IN", "Sao Paulo, BR" >>

\* getLocationData for one value of Math.random(); nothing in its try block
\* throws, so the catch and its 'Unknown Location' are not reached.
getLocationData(draw) == mockLocations[draw + 1]

\* recordClick up to its await: the lookup, the expiry check and the call of
\* getLocationData, whose body runs at once.  A throw rejects the promise;
\* otherwise the call is suspended with urlData, source and location.
recordClick(shortCode, source) ==
    /\ LET ref == getURLByShortCode(shortCode)
       IN  IF ref = 0
           THEN /\ ret' = Threw("recordClick", ErrNotFound)
                /\ UNCHANGED <<pending, started>>
           ELSE IF isURLExpired(objs[ref])
           THEN /\ ret' = Threw("recordClick", ErrExpired)
                /\ UNCHANGED <<pending, started>>
           ELSE /\ started < MaxClicks
                /\ \E draw \in LocationDraws :
                    pending' = pending (+) SetToBag({[ ref |-> ref, source |-> source,
                                                       location |-> getLocationData(draw) ]})
                /\ started' = started + 1
                /\ UNCHANGED ret
    /\ UNCHANGED <<now, ticks, objs, urls, stored, completed, failures>>

\* const clickData = {...}, with id as in urlData.
clickData(source, location) ==
    [ id |-> now,
      timestamp |-> toISOString(now),
      source |-> source,
      location |-> location,
      userAgent |-> "navigator.userAgent" ]

\* pushClick without the update of totalClicks.
pushClickNoTotal(rec, click) == [rec EXCEPT !.clicks = Append(@, click)]

\* pushClick that assigns the click list instead of appending to it.
pushClickAssign(rec, click) == [rec EXCEPT !.clicks = <<click>>, !.totalClicks = 1]

\* pushClick that puts the click in front (unshift) instead of at the end.
pushClickFront(rec, click) ==
    LET clicks == <<click>> \o rec.clicks
    IN  [rec EXCEPT !.clicks = clicks, !.totalClicks = Len(clicks)]

\* urlData.clicks.push(clickData); urlData.totalClicks = urlData.clicks.length
pushClick(rec, click) ==
    LET clicks == Append(rec.clicks, click)
    IN  [rec EXCEPT !.clicks = clicks, !.totalClicks = Len(clicks)]

\* recordClick after its await: it appends to the object it looked up before
\* the await, saves this.urls as it is now and returns the object.
RecordClickResume(call) ==
    /\ BagIn(call, pending)
    /\ pending' = pending (-) SetToBag({call})
    /\ objs' = [objs EXCEPT ![call.ref] = pushClick(@, clickData(call.source, call.location))]
    /\ \E writeOK \in WriteOutcomes :
        /\ stored' = saveURLs(urls, objs', writeOK)
        /\ failures' = Failed(writeOK)
        /\ ret' = Returned("recordClick", call.ref, 0, Saved(writeOK))
    /\ completed' = [completed EXCEPT ![call.ref] = @ + 1]
    /\ UNCHANGED <<now, ticks, urls, started>>

\* An insertion that ignores createdAt: the sort leaves the order as it is.
InsertAtEnd(sorted, ref) == Append(sorted, ref)

\* Array.prototype.sort with (a, b) => new Date(b.createdAt) - new Date(a.createdAt):
\* a stable sort, latest createdAt first.
RECURSIVE SortByCreatedAtDesc(_)
InsertByCreatedAtDesc(sorted, ref) ==
    LET before == { i \in 1..Len(sorted) :
                      DateParse(objs[sorted[i]].createdAt) >= DateParse(objs[ref].createdAt) }
        k == Cardinality(before)
    IN  SubSeq(sorted, 1, k) \o <<ref>> \o SubSeq(sorted, k + 1, Len(sorted))
SortByCreatedAtDesc(refs) ==
    IF refs = <<>> THEN <<>>
    ELSE InsertByCreatedAtDesc(SortByCreatedAtDesc(SubSeq(refs, 1, Len(refs) - 1)),
                               refs[Len(refs)])

\* getAllURLs sorts this.urls in place and returns it.
getAllURLs ==
    /\ urls' = SortByCreatedAtDesc(urls)
    /\ ret' = Returned("getAllURLs", 0, 0, "none")
    /\ UNCHANGED <<now, ticks, objs, stored, pending, started, completed, failures>>

\* deleteExpiredURLs without its call of saveURLs.
deleteExpiredURLsNoSave ==
    LET kept == SelectSeq(urls, LAMBDA ref : ~ isURLExpired(objs[ref]))
    IN  /\ urls' = kept
        /\ ret' = Returned("deleteExpiredURLs", 0, Len(urls) - Len(kept), "none")
        /\ UNCHANGED <<now, ticks, objs, stored, pending, started, completed, failures>>

\* deleteExpiredURLs that calls saveURLs whatever the count.
deleteExpiredURLsAlwaysSave ==
    LET kept == SelectSeq(urls, LAMBDA ref : ~ isURLExpired(objs[ref]))
    IN  /\ urls' = kept
        /\ \E writeOK \in WriteOutcomes :
            /\ stored' = saveURLs(urls', objs, writeOK)
            /\ failures' = Failed(writeOK)
            /\ ret' = Returned("deleteExpiredURLs", 0, Len(urls) - Len(kept), Saved(writeOK))
        /\ UNCHANGED <<now, ticks, objs, pending, started, completed>>

deleteExpiredURLs ==
    LET kept == SelectSeq(urls, LAMBDA ref : ~ isURLExpired(objs[ref]))
        deletedCount == Len(urls) - Len(kept)
    IN  /\ urls' = kept
        /\ IF deletedCount > 0
           THEN \E writeOK \in WriteOutcomes :
                    /\ stored' = saveURLs(urls', objs, writeOK)
                    /\ failures' = Failed(writeOK)
                    /\ ret' = Returned("deleteExpiredURLs", 0, deletedCount, Saved(writeOK))
           ELSE /\ UNCHANGED <<stored, failures>>
                /\ ret' = Returned("deleteExpiredURLs", 0, deletedCount, "none")
        /\ UNCHANGED <<now, ticks, objs, pending, started, completed>>

Calls ==
    { [ref |-> r, source |-> s, location |-> mockLocations[l]] :
        r \in 1..Len(objs), s \in Sources, l \in 1..Len(mockLocations) }

Next ==
    \/ Tick /\ UNCHANGED rest
    \/ \E in \in CreateInputs :
            createShortURL(in[1], in[2], in[3]) /\ UNCHANGED rest
    \/ \E shortCode \in CodeStrings, source \in Sources :
            recordClick(shortCode, source) /\ UNCHANGED rest
    \/ \E call \in Calls : RecordClickResume(call) /\ UNCHANGED rest
    \/ getAllURLs /\ UNCHANGED rest
    \/ deleteExpiredURLs /\ UNCHANGED rest

Spec == Init /\ [][Next]_vars

----------------------------------------------------------------------------
(* The service constructed on a blob that it did not write itself. *)

\* A record as an earlier session left it in the blob.
StoredRecord ==
    [ id |-> 0,
      originalURL |-> [scheme |-> "https", host |-> "example.com"],
      shortCode |-> generateShortCode(0),
      shortURL |-> <<"http://localhost:3000/">> \o generateShortCode(0),
      createdAt |-> toISOString(0),
      expiresAt |-> toISOString(60000),
      validityMinutes |-> 1,
      clicks |-> <<>>,
      totalClicks |-> 0 ]

BlobInputs ==
    { [kind |-> k, recs |-> <<>>] : k \in BlobKinds }
        \cup { [kind |-> "array", recs |-> <<StoredRecord>>] }

\* this.urls is what loadURLs returned for the blob.  The service writes
\* arrays only, and with a this.urls that is no array no call gets as far as
\* saveURLs, so this.urls is an array exactly when loadURLs of the blob is.
ThisUrlsIsArray == loadURLs(stored).kind = "array"

\* constructor: this.urls = this.loadURLs().
InitLoad ==
    /\ InitRest
    /\ now = 0
    /\ ticks = 0
    /\ stored \in BlobInputs
    /\ objs = loadURLs(stored).recs
    /\ urls = [i \in 1..Len(objs) |-> i]
    /\ pending = EmptyBag
    /\ started = 0
    /\ completed = [i \in 1..Len(objs) |-> 0]
    /\ failures = 0
    /\ ret = NoRet

\* The calls on a this.urls that is no array: createShortURL throws the
\* error of its URL, validity or format check, or else the TypeError of
\* this.urls.some in isShortCodeUnique; recordClick that of this.urls.find,
\* getAllURLs that of this.urls.sort, deleteExpiredURLs that of
\* this.urls.filter.
CallOnNonArray ==
    /\ ~ ThisUrlsIsArray
    /\ \/ \E in \in CreateInputs :
            LET error == createError(in[1], in[2], in[3])
            IN  ret' = Threw("createShortURL",
                             IF error \in {ErrInvalidURL, ErrInvalidValidity,
                                           ErrInvalidShortcodeFormat}
                             THEN error ELSE ErrTypeError)
       \/ ret' = Threw("recordClick", ErrTypeError)
       \/ ret' = Threw("getAllURLs", ErrTypeError)
       \/ ret' = Threw("deleteExpiredURLs", ErrTypeError)
    /\ UNCHANGED <<now, ticks, objs, urls, stored, pending, started, completed, failures>>
    /\ UNCHANGED rest

NextLoad ==
    \/ ThisUrlsIsArray /\ Next
    \/ CallOnNonArray

SpecLoad == InitLoad /\ [][NextLoad]_vars

----------------------------------------------------------------------------
(* createShortURL on its auto-generation path, with the do-while loop of    *)
(* lines 90-92 as steps of its own.  The function is synchronous: from the  *)
(* entry into the loop to the return no other call runs; the clock does.    *)

\* createShortURL with a falsy customShortCode gets past the URL and the
\* validity checks and enters the loop.
GenEnter(originalURL, validityMinutes) ==
    /\ gen.pc = "idle"
    /\ Len(objs) <= MaxObjs
    /\ createError(originalURL, NoCode, validityMinutes) \in {"", ErrInvalidTime}
    /\ gen' = [pc |-> "loop", originalURL |-> originalURL, shortCode |-> <<>>,
               validityMinutes |-> validityMinutes]
    /\ UNCHANGED <<now, ticks, objs, urls, stored, pending, started, completed,
                   failures, ret, logs, appLogs, sinkFailures, handler, form>>

\* do { shortCode = this.generateShortCode(); } while (!this.isShortCodeUnique(shortCode));
\* one pass of the loop, with draw the value of Math.random().
GenDraw(draw) ==
    /\ gen.pc = "loop"
    /\ LET shortCode == generateShortCode(draw)
       IN  gen' = [gen EXCEPT !.shortCode = shortCode,
                              !.pc = IF isShortCodeUnique(shortCode) THEN "exit" ELSE "loop"]
    /\ UNCHANGED <<now, ticks, objs, urls, stored, pending, started, completed,
                   failures, ret, logs, appLogs, sinkFailures, handler, form>>

\* Lines 95-114: the record is built, pushed and saved, and returned; the
\* toISOString of an expiry beyond the range of Date throws.
GenExit ==
    /\ gen.pc = "exit"
    /\ gen' = NoGen
    /\ IF gen.validityMinutes.t = "huge"
       THEN /\ ret' = Threw("createShortURL", ErrInvalidTime)
            /\ UNCHANGED <<objs, urls, stored, completed, failures>>
       ELSE \E writeOK \in WriteOutcomes :
            LET rec == urlData(gen.originalURL, gen.shortCode, gen.validityMinutes.n)
                ref == Len(objs) + 1
            IN  /\ objs' = Append(objs, rec)
                /\ urls' = Append(urls, ref)
                /\ completed' = Append(completed, 0)
                /\ stored' = saveURLs(urls', objs', writeOK)
                /\ failures' = Failed(writeOK)
                /\ ret' = Returned("createShortURL", ref, 0, Saved(writeOK))
    /\ UNCHANGED <<now, ticks, pending, started, logs, appLogs, sinkFailures, handler, form>>

InitGen == Init

NextGen ==
    \/ Tick /\ UNCHANGED rest
    \/ gen.pc = "idle" /\ deleteExpiredURLs /\ UNCHANGED rest
    \/ \E in \in CreateInputs : ~ Truthy(in[2]) /\ GenEnter(in[1], in[3])
    \/ \E draw \in 0..MaxDraw : GenDraw(draw)
    \/ GenExit

\* Math.random() is fair: a value that stays possible is drawn in the end.
SpecGen ==
    /\ InitGen
    /\ [][NextGen]_vars
    /\ \A draw \in 0..MaxDraw : WF_vars(GenDraw(draw))

----------------------------------------------------------------------------
(* The logger (src/unnamed/part_001). *)

maxLogs == 1000
\* this.logs.slice(0, 100): how many entries the blob under 'app_logs' gets.
persistedLogs == 100

Min(a, b) == IF a <= b THEN a ELSE b

\* logEntry.  n is the number of the log call: it stands for id, which is
\* Date.now() + Math.random(), and tells the entries of one millisecond
\* apart.  data, userAgent and url are left out: no code reads them.
logEntry(level, message) ==
    [ n |-> IF logs = <<>> THEN 1 ELSE logs[1].n + 1,
      timestamp |-> toISOString(now),
      level |-> level,
      message |-> message ]

\* localStorage.setItem(key, value) on the two items of the application; a
\* call that throws changes neither.
setItem(key, value, ok) ==
    [ shortened_urls |-> IF ok /\ key = "shortened_urls" THEN value ELSE stored,
      app_logs |-> IF ok /\ key = "app_logs" THEN value ELSE appLogs ]

LogsKey == "app_logs"

\* log without its try/catch: the exception of setItem leaves the function.
logRethrow(level, message, sinkOK) ==
    LET unshifted == <<logEntry(level, message)>> \o logs
        kept == IF Len(unshifted) > maxLogs THEN SubSeq(unshifted, 1, maxLogs)
                ELSE unshifted
        blob == [kind |-> "array",
                 recs |-> SubSeq(kept, 1, Min(persistedLogs, Len(kept)))]
    IN  [ logs |-> kept, storage |-> setItem(LogsKey, blob, sinkOK), threw |-> ~ sinkOK ]

\* log without the cut to maxLogs.
logUncapped(level, message, sinkOK) ==
    LET kept == <<logEntry(level, message)>> \o logs
        blob == [kind |-> "array",
                 recs |-> SubSeq(kept, 1, Min(persistedLogs, Len(kept)))]
    IN  [ logs |-> kept, storage |-> setItem(LogsKey, blob, sinkOK), threw |-> FALSE ]

\* Logger.log: unshift, the cut to maxLogs, then setItem inside try/catch.
\* The result is this.logs, the storage, and whether an exception leaves
\* the function: the catch only warns on the console, so none does.
log(level, message, sinkOK) ==
    LET unshifted == <<logEntry(level, message)>> \o logs
        kept == IF Len(unshifted) > maxLogs THEN SubSeq(unshifted, 1, maxLogs)
                ELSE unshifted
        blob == [kind |-> "array",
                 recs |-> SubSeq(kept, 1, Min(persistedLogs, Len(kept)))]
    IN  [ logs |-> kept, storage |-> setItem(LogsKey, blob, sinkOK), threw |-> FALSE ]

\* The outcomes of the setItem of Logger.log that the model still allows.
SinkOutcomes == IF sinkFailures < MaxSinkFailures THEN {TRUE, FALSE} ELSE {TRUE}
SinkFailed(sinkOK) == IF sinkOK THEN sinkFailures ELSE sinkFailures + 1

\* How many times Logger.log has been called.
logCalls == IF logs = <<>> THEN 0 ELSE logs[1].n

\* logger.info(message) from anywhere in the application.
Log(level, message) ==
    /\ logCalls < MaxLogCalls
    /\ \E sinkOK \in SinkOutcomes :
        LET r == log(level, message, sinkOK)
        IN  /\ logs' = r.logs
            /\ stored' = r.storage.shortened_urls
            /\ appLogs' = r.storage.app_logs
            /\ sinkFailures' = SinkFailed(sinkOK)
    /\ UNCHANGED <<now, ticks, objs, urls, pending, started, completed, failures, ret,
                   gen, handler, form>>

InitLogger == Init

NextLogger == \E level \in {"info"} : Log(level, "message")

SpecLogger == InitLogger /\ [][NextLogger]_vars

----------------------------------------------------------------------------
(* The registry with the logger: every call of URLService calls the logger *)
(* (lines 10-199 of src/unnamed/part_000), and the setItem of the logger   *)
(* may throw.                                                              *)

\* A call of the registry, named op in the log, with its call of the
\* logger.  One entry stands for the entries of the call: each goes through
\* the same Logger.log.  An exception that left Logger.log would end the
\* call with that exception.
Logged(call, op) ==
    /\ Len(logs) < MaxLoggedCalls
    /\ \E sinkOK \in SinkOutcomes :
        LET r == log("info", op, sinkOK)
        IN  /\ logs' = r.logs
            /\ appLogs' = r.storage.app_logs
            /\ sinkFailures' = SinkFailed(sinkOK)
            /\ IF r.threw
               THEN /\ ret' = Threw(op, ErrQuota)
                    /\ UNCHANGED <<now, ticks, objs, urls, stored, pending, started,
                                   completed, failures>>
               ELSE call
    /\ UNCHANGED <<gen, handler, form>>

\* constructor: this.urls = this.loadURLs(), on a blob that gives an array.
constructor ==
    /\ ret = NoRet
    /\ urls = <<>>
    /\ objs' = loadURLs(stored).recs
    /\ urls' = [i \in 1..Len(objs') |-> i]
    /\ completed' = [i \in 1..Len(objs') |-> 0]
    /\ ret' = Returned("constructor", 0, Len(objs'), "none")
    /\ UNCHANGED <<now, ticks, stored, pending, started, failures>>

\* The calls of the registry, whatever the logger does.
ServiceCall ==
    \/ \E in \in CreateInputs : createShortURL(in[1], in[2], in[3])
    \/ \E shortCode \in CodeStrings, source \in Sources : recordClick(shortCode, source)
    \/ \E call \in Calls : RecordClickResume(call)
    \/ getAllURLs
    \/ deleteExpiredURLs

InitLog ==
    /\ InitRest
    /\ now = 0
    /\ ticks = 0
    /\ stored \in { blob \in BlobInputs : loadURLs(blob).kind = "array" }
    /\ objs = <<>>
    /\ urls = <<>>
    /\ pending = EmptyBag
    /\ started = 0
    /\ completed = <<>>
    /\ failures = 0
    /\ ret = NoRet

NextLog ==
    \/ Tick /\ UNCHANGED rest
    \/ Logged(constructor, "constructor")
    \/ ret # NoRet /\ \E in \in CreateInputs :
            Logged(createShortURL(in[1], in[2], in[3]), "createShortURL")
    \/ ret # NoRet /\ \E shortCode \in CodeStrings, source \in Sources :
            Logged(recordClick(shortCode, source), "recordClick")
    \/ \E call \in Calls : Logged(RecordClickResume(call), "recordClick")
    \/ ret # NoRet /\ Logged(getAllURLs, "getAllURLs")
    \/ ret # NoRet /\ Logged(deleteExpiredURLs, "deleteExpiredURLs")

SpecLog == InitLog /\ [][NextLog]_vars

----------------------------------------------------------------------------
(* The claims. *)

Refs == 1..Len(objs)
InRegistry(ref) == ref \in Range(urls)
PositiveInteger(validityMinutes) ==
    validityMinutes.t = "huge" \/ (validityMinutes.t = "int" /\ validityMinutes.n > 0)
WithCode(refs, heap, code) == { i \in 1..Len(refs) : heap[refs[i]].shortCode = code }

\* What every step of createShortURL does and no other step does.
CreateStep == ret'.op = "createShortURL" /\ now' = now /\ started' = started

\* C1: in every reachable state every record of the registry has
\* totalClicks equal to the length of its clicks.
C1_TotalClicksIsLength ==
    \A i \in 1..Len(urls) : Records[i].totalClicks = Len(Records[i].clicks)

\* A record of the registry that two clicks were appended to.
C1_Witness ==
    \E i \in 1..Len(urls) : Len(Records[i].clicks) = 2

\* C2: in every reachable state no two records of the registry have the same
\* shortCode, expired or not, custom or generated.
C2_ShortCodesDistinct ==
    \A i, j \in 1..Len(urls) :
        i # j => Records[i].shortCode # Records[j].shortCode

\* Two records in the registry, one of them expired.
C2_Witness ==
    /\ Len(urls) = 2
    /\ \E i \in 1..Len(urls) : now > DateParse(Records[i].expiresAt)

\* C3: createShortURL with a valid URL, a valid validity and a custom code
\* that a record of the registry has throws 'Custom shortcode already
\* exists' and changes neither the registry nor the blob: the record count
\* is the same and exactly one record has the code.
C3_ConflictLeavesRegistry ==
    [][ CreateStep =>
        \A i \in 1..Len(urls), originalURL \in URLInputs,
           validityMinutes \in ValidityInputs :
            LET code == Records[i].shortCode
            IN  ( /\ isValidURL(originalURL)
                  /\ PositiveInteger(validityMinutes)
                  /\ createShortURL(originalURL, Custom(code), validityMinutes) )
                => /\ ret'.error = ErrShortcodeConflict
                   /\ UNCHANGED <<urls, objs, stored>>
                   /\ Len(urls') = Len(urls)
                   /\ Cardinality(WithCode(urls', objs', code)) = 1 ]_vars

\* A creation threw the conflict error while the one record of the registry
\* is expired.
C3_Witness ==
    /\ ret.op = "createShortURL"
    /\ ret.error = ErrShortcodeConflict
    /\ Len(urls) = 1
    /\ now > DateParse(Records[1].expiresAt)

\* C4: every record, when createShortURL returns it and in every later state,
\* has expiresAt - createdAt = validityMinutes * 60000 ms, in the registry
\* and out of it.
C4_ExpiryIsValidity ==
    \A ref \in Refs :
        DateParse(objs[ref].expiresAt) - DateParse(objs[ref].createdAt)
            = objs[ref].validityMinutes * 60000

\* A record of two minutes, created after the clock had advanced, that has
\* since been clicked.
C4_Witness ==
    \E ref \in Refs :
        /\ objs[ref].validityMinutes = 2
        /\ DateParse(objs[ref].createdAt) > 0
        /\ objs[ref].totalClicks > 0

\* C5: recordClick on the code of a record of the registry whose expiresAt is
\* before the current time throws 'URL has expired', appends no click, leaves
\* totalClicks as it is and does not write the blob.
C5_ExpiredClickRejected ==
    [][ now' = now =>
        \A i \in 1..Len(urls), source \in Sources :
            ( /\ DateParse(Records[i].expiresAt) < now
              /\ recordClick(Records[i].shortCode, source) )
            => /\ ret'.op = "recordClick"
               /\ ret'.error = ErrExpired
               /\ UNCHANGED <<objs, urls, stored, pending, failures>> ]_vars

\* A recordClick threw the expiry error on a registry whose one record has
\* clicks from before.
C5_Witness ==
    /\ ret.op = "recordClick"
    /\ ret.error = ErrExpired
    /\ Len(urls) = 1
    /\ Records[1].totalClicks > 0
    /\ now > DateParse(Records[1].expiresAt)

\* C6: no click is recorded for an expired link: every click of every record
\* has a timestamp that is not after the record's expiresAt.
C6_NoClickOnExpired ==
    \A ref \in Refs : \A k \in 1..Len(objs[ref].clicks) :
        DateParse(objs[ref].clicks[k].timestamp) <= DateParse(objs[ref].expiresAt)

\* C7: a record that k recordClick calls have returned has totalClicks = k
\* and k clicks, whatever the order in which the calls were suspended and
\* resumed.
C7_ClicksCounted ==
    \A ref \in Refs :
        /\ objs[ref].totalClicks = completed[ref]
        /\ Len(objs[ref].clicks) = completed[ref]

\* Two recordClick calls have returned a record of the registry.
C7_Witness ==
    \E ref \in Refs : InRegistry(ref) /\ completed[ref] = 2

\* What every step of recordClick after its await does and no other step does.
ResumeStep == ret'.op = "recordClick" /\ completed' # completed

\* C8: when recordClick returns, the record it returns is in the registry,
\* its last click is the new one and the blob holds the record with that
\* click, whatever ran while the call was suspended.  Stated for the calls
\* whose storage write went through, so that a failed write is not what
\* refutes it.
C8_ReturnedRecordInRegistry ==
    [][ (ResumeStep /\ ret'.saved = "ok") =>
        LET rec == objs'[ret'.ref]
        IN  /\ ret'.ref \in Range(urls')
            /\ Len(rec.clicks) = Len(objs[ret'.ref].clicks) + 1
            /\ rec.clicks[Len(rec.clicks)].timestamp = toISOString(now)
            /\ \E i \in 1..Len(stored'.recs) : stored'.recs[i] = JSONRecord(rec) ]_vars

RecordFields ==
    { "id", "originalURL", "shortCode", "shortURL", "createdAt", "expiresAt",
      "validityMinutes", "clicks", "totalClicks" }
\* The step appends one complete record to objs and to the end of urls.
AppendsRecord ==
    /\ ret'.error = ""
    /\ Len(objs') = Len(objs) + 1
    /\ SubSeq(objs', 1, Len(objs)) = objs
    /\ urls' = Append(urls, Len(objs'))
    /\ ret'.ref = Len(objs')
    /\ LET rec == objs'[Len(objs')]
       IN  /\ DOMAIN rec = RecordFields
           /\ rec.clicks = <<>>
           /\ rec.totalClicks = 0
           /\ rec.shortCode # <<>>
           /\ rec.shortURL = <<"http://localhost:3000/">> \o rec.shortCode
           /\ rec.createdAt = toISOString(now)
           /\ rec.validityMinutes > 0
FailsUnchanged == ret'.error # "" /\ UNCHANGED <<objs, urls, stored>>
InBlob(blob, rec) == \E i \in 1..Len(blob.recs) : blob.recs[i] = JSONRecord(rec)

\* C9 as stated: every createShortURL either appends one complete record that
\* the blob holds when the call returns, or throws and leaves the registry
\* and the blob as they were.
C9_Original ==
    [][ CreateStep =>
        \/ AppendsRecord /\ InBlob(stored', objs'[Len(objs')])
        \/ FailsUnchanged ]_vars

\* C9 amended: every createShortURL either appends one complete record, which
\* the blob holds when the call returns if the storage write went through
\* (the blob is then the whole registry) while a write that threw leaves the
\* blob as it was, or throws and leaves the registry and the blob as they
\* were.
C9_AtomicCreate ==
    [][ CreateStep =>
        \/ /\ AppendsRecord
           /\ ret'.saved \in {"ok", "failed"}
           /\ ret'.saved = "ok" =>
                stored' = JSONStringify(urls', objs') /\ InBlob(stored', objs'[Len(objs')])
           /\ ret'.saved = "failed" => stored' = stored
        \/ FailsUnchanged ]_vars

\* A creation returned its record although the write threw: the record is
\* in the registry and not in the blob.
C9_Witness ==
    /\ ret.op = "createShortURL"
    /\ ret.saved = "failed"
    /\ InRegistry(ret.ref)
    /\ ~ InBlob(stored, objs[ret.ref])

\* /^[a-zA-Z0-9]+$/ and the length limit, on a custom code that is looked at.
BadFormat(customShortCode) ==
    /\ Truthy(customShortCode)
    /\ \/ Len(customShortCode.code) > 20
       \/ \E k \in 1..Len(customShortCode.code) :
            customShortCode.code[k] \notin Alnum
Conflicts(customShortCode) ==
    Truthy(customShortCode) /\ WithCode(urls, objs, customShortCode.code) # {}
CheckErrors ==
    {ErrInvalidURL, ErrInvalidValidity, ErrInvalidShortcodeFormat, ErrShortcodeConflict}

\* C10: in every reachable state and for every input, the error that
\* createShortURL throws is that of the first failing check in the order URL,
\* validity, code format, code conflict, and no check's error when none
\* fails; the four errors have four distinct messages.
C10_FirstFailingCheck ==
    /\ Cardinality(CheckErrors) = 4
    /\ \A u \in URLInputs, c \in CustomInputs, v \in ValidityInputs :
        LET error == createError(u, c, v)
        IN  IF ~ isValidURL(u) THEN error = ErrInvalidURL
            ELSE IF ~ PositiveInteger(v) THEN error = ErrInvalidValidity
            ELSE IF BadFormat(c) THEN error = ErrInvalidShortcodeFormat
            ELSE IF Conflicts(c) THEN error = ErrShortcodeConflict
            ELSE error \notin CheckErrors

\* A creation threw the validity error while the registry holds a record
\* that a custom code could conflict with.
C10_Witness ==
    /\ ret.op = "createShortURL"
    /\ ret.error = ErrInvalidValidity
    /\ Len(urls) >= 1

\* What every step of deleteExpiredURLs does and no other step does.
SweepStep == ret'.op = "deleteExpiredURLs" /\ now' = now /\ started' = started
\* The positions of the registry whose record's expiresAt is before now.
ExpiredAt == { i \in 1..Len(urls) : now > DateParse(Records[i].expiresAt) }

\* C11: deleteExpiredURLs removes exactly the records whose expiresAt is
\* before the time of the call, keeps every other record, with its clicks, in
\* the order they had, returns the number of records removed, and calls the
\* storage write if and only if that number is greater than zero (the blob is
\* then the kept registry when the write goes through, and is not touched
\* otherwise).
C11_SweepRemovesExpired ==
    [][ SweepStep =>
        /\ Len(urls') = Len(urls) - Cardinality(ExpiredAt)
        /\ \A i \in 1..Len(urls) :
              i \notin ExpiredAt =>
                urls'[i - Cardinality({ j \in ExpiredAt : j < i })] = urls[i]
        /\ objs' = objs
        /\ ret'.error = ""
        /\ ret'.count = Cardinality(ExpiredAt)
        /\ ret'.saved # "none" <=> Cardinality(ExpiredAt) > 0
        /\ ret'.saved = "ok" => stored' = JSONStringify(urls', objs')
        /\ ret'.saved # "ok" => stored' = stored ]_vars

\* A sweep removed one record of two and kept the other, which has a click,
\* and its write went through.
C11_Witness ==
    /\ ret.op = "deleteExpiredURLs"
    /\ ret.count = 1
    /\ ret.saved = "ok"
    /\ Len(urls) = 1
    /\ Records[1].totalClicks > 0
    /\ Len(stored.recs) = 1

\* C12: when deleteExpiredURLs runs again after a deleteExpiredURLs, with no
\* other call returning in between and no record of the registry having
\* expired since, it returns 0 and changes neither the registry nor the blob.
C12_SweepIdempotent ==
    [][ (SweepStep /\ ret.op = "deleteExpiredURLs" /\ ExpiredAt = {}) =>
        /\ ret'.count = 0
        /\ ret'.saved = "none"
        /\ UNCHANGED <<urls, objs, stored, failures>> ]_vars

\* The last call was a sweep that returned 0 on a registry that holds a
\* record, after an earlier sweep had removed one whose write had thrown, so
\* that the blob still holds two records.
C12_Witness ==
    /\ ret.op = "deleteExpiredURLs"
    /\ ret.count = 0
    /\ Len(urls) = 1
    /\ Len(objs) = 2
    /\ Len(stored.recs) = 2

\* What every step of getAllURLs does and no other step does.
GetAllStep == ret'.op = "getAllURLs" /\ now' = now /\ started' = started

\* C13: getAllURLs is a pure read: a call leaves the in-memory sequence as it
\* was, the same records in the same order, and does not write the blob.
C13_PureRead ==
    [][ GetAllStep => UNCHANGED <<urls, objs, stored>> ]_vars

\* C14: getAllURLs returns every record of the registry exactly once, ordered
\* by createdAt descending: each result's createdAt is not before that of the
\* result after it.  What it returns is this.urls after the call.
C14_AllByCreatedAtDesc ==
    [][ GetAllStep =>
        /\ Len(urls') = Len(urls)
        /\ Range(urls') = Range(urls)
        /\ \A i, j \in 1..Len(urls') : i # j => urls'[i] # urls'[j]
        /\ objs' = objs
        /\ \A i \in 1..(Len(urls') - 1) :
              DateParse(objs[urls'[i]].createdAt) >= DateParse(objs[urls'[i + 1]].createdAt) ]_vars

\* getAllURLs returned two records created at different times, the later one
\* first.
C14_Witness ==
    /\ ret.op = "getAllURLs"
    /\ Len(urls) = 2
    /\ urls = <<2, 1>>
    /\ DateParse(Records[1].createdAt) > DateParse(Records[2].createdAt)

\* C15: isURLExpired of a record is true exactly when the current time is
\* after the record's expiresAt; at the instant now = expiresAt a recordClick
\* on a record of the registry does not throw and goes on to its await, at
\* any later instant it throws 'URL has expired'.
C15_ExpiredStrictlyAfter ==
    [][ now' = now =>
        /\ \A ref \in Refs :
              isURLExpired(objs[ref]) <=> now > DateParse(objs[ref].expiresAt)
        /\ \A i \in 1..Len(urls), source \in Sources :
              recordClick(Records[i].shortCode, source) =>
                IF now <= DateParse(Records[i].expiresAt)
                THEN /\ ret' = ret
                     /\ started' = started + 1
                     /\ \E call \in Calls :
                          /\ call.ref = urls[i]
                          /\ pending' = pending (+) SetToBag({call})
                ELSE ret'.error = ErrExpired /\ pending' = pending ]_vars

\* At the instant of its expiry a record of the registry holds a click
\* stamped with that instant and is not expired.
C15_Witness ==
    \E i \in 1..Len(urls) :
        /\ now = DateParse(Records[i].expiresAt)
        /\ \E k \in 1..Len(Records[i].clicks) :
              Records[i].clicks[k].timestamp = Records[i].expiresAt
        /\ ~ isURLExpired(Records[i])

\* C16: a record that createShortURL created is not expired, by isURLExpired,
\* as long as no time has elapsed since its creation.
C16_FreshNotExpired ==
    \A ref \in Refs :
        now = DateParse(objs[ref].createdAt) => ~ isURLExpired(objs[ref])

\* createShortURL has just returned a record of one minute, created after
\* the clock had advanced, and no time has elapsed since.
C16_Witness ==
    /\ ret.op = "createShortURL"
    /\ ret.error = ""
    /\ InRegistry(ret.ref)
    /\ objs[ret.ref].validityMinutes = 1
    /\ now > 0
    /\ now = DateParse(objs[ret.ref].createdAt)

\* C17: expiry alone removes no record.  For a record of the registry whose
\* expiresAt has passed: getURLByShortCode with its code returns it,
\* isURLExpired of it is true, every recordClick on its code throws 'URL has
\* expired' and changes nothing, and every step that is not a
\* deleteExpiredURLs leaves it in the registry.
C17_ExpiredStaysUntilSweep ==
    [][ \A i \in 1..Len(urls) :
          now > DateParse(Records[i].expiresAt) =>
            /\ getURLByShortCode(Records[i].shortCode) = urls[i]
            /\ isURLExpired(Records[i])
            /\ \A source \in Sources :
                  recordClick(Records[i].shortCode, source) =>
                    /\ ret' = Threw("recordClick", ErrExpired)
                    /\ UNCHANGED <<objs, urls, stored, pending>>
            /\ ~ SweepStep => urls[i] \in Range(urls') ]_vars

\* A recordClick threw the expiry error on a registry of two records, both
\* past their expiry, and the clock has advanced since.
C17_Witness ==
    /\ ret = Threw("recordClick", ErrExpired)
    /\ Len(urls) = 2
    /\ \A i \in 1..Len(urls) : now > DateParse(Records[i].expiresAt) + 1

\* C18: at the return of every createShortURL that returned a record, every
\* recordClick that returned a record and every deleteExpiredURLs that
\* removed a record, if the storage write went through, the blob decodes to
\* the in-memory sequence, the same records with the same clicks in the
\* same order: loadURLs of the blob is an array of exactly the records of
\* this.urls.
C18_BlobMirrorsRegistry ==
    [][ ( /\ CreateStep \/ ResumeStep \/ SweepStep
          /\ ret'.error = ""
          /\ ret'.saved = "ok" ) =>
        /\ loadURLs(stored').kind = "array"
        /\ loadURLs(stored').recs = [i \in 1..Len(urls') |-> objs'[urls'[i]]] ]_vars

\* A recordClick returned after a write that went through, on a registry of
\* two records that getAllURLs had put latest first: the blob holds both in
\* that order, with the click.
C18_Witness ==
    /\ ret.op = "recordClick"
    /\ ret.saved = "ok"
    /\ urls = <<2, 1>>
    /\ InRegistry(ret.ref)
    /\ loadURLs(stored).recs = Records
    /\ \E i \in 1..Len(stored.recs) : Len(stored.recs[i].clicks) > 0

\* C19: when the write of saveURLs throws during createShortURL, recordClick
\* or deleteExpiredURLs, the call returns its normal result without throwing
\* (the new record, the record with its new click, the number removed), the
\* in-memory registry keeps the mutation, setItem was called once and not
\* again, and the blob is as it was before the call.
C19_WriteFailureAbsorbed ==
    [][ ( /\ CreateStep \/ ResumeStep \/ SweepStep
          /\ ret'.saved = "failed" ) =>
        /\ ret'.error = ""
        /\ stored' = stored
        /\ failures' = failures + 1
        /\ ret'.op = "createShortURL" =>
              /\ urls' = Append(urls, ret'.ref)
              /\ ret'.ref = Len(objs')
              /\ Len(objs') = Len(objs) + 1
        /\ ret'.op = "recordClick" =>
              /\ urls' = urls
              /\ Len(objs'[ret'.ref].clicks) = Len(objs[ret'.ref].clicks) + 1
              /\ objs'[ret'.ref].totalClicks = objs[ret'.ref].totalClicks + 1
        /\ ret'.op = "deleteExpiredURLs" =>
              /\ ret'.count > 0
              /\ Len(urls') = Len(urls) - ret'.count
              /\ \A i \in 1..Len(urls') :
                    now <= DateParse(objs[urls'[i]].expiresAt) ]_vars

\* A sweep removed the one record of the registry and returned 1 although
\* its write threw: the registry is empty and the blob still holds the
\* record, with its click.
C19_Witness ==
    /\ ret.op = "deleteExpiredURLs"
    /\ ret.saved = "failed"
    /\ ret.count = 1
    /\ urls = <<>>
    /\ Len(stored.recs) = 1
    /\ stored.recs[1].totalClicks > 0

\* C20: loadURLs returns a sequence of records for every blob, the empty
\* sequence when the blob is absent, does not parse or is not a sequence of
\* records, so that this.urls is a sequence and no registry call fails on
\* it with a TypeError.
C20_LoadsSequence ==
    /\ loadURLs(stored).kind = "array"
    /\ stored.kind # "array" => loadURLs(stored).recs = <<>>
    /\ ret.error # ErrTypeError

\* C21: across every step, every record that stays in the registry keeps its
\* id, originalURL, shortCode, shortURL, createdAt, expiresAt and
\* validityMinutes, its clicks before the step are a prefix of its clicks
\* after it, and its totalClicks does not decrease.
C21_RecordsImmutable ==
    [][ \A ref \in Range(urls) \cap Range(urls') :
          LET old == objs[ref]
              new == objs'[ref]
          IN  /\ new.id = old.id
              /\ new.originalURL = old.originalURL
              /\ new.shortCode = old.shortCode
              /\ new.shortURL = old.shortURL
              /\ new.createdAt = old.createdAt
              /\ new.expiresAt = old.expiresAt
              /\ new.validityMinutes = old.validityMinutes
              /\ Len(new.clicks) >= Len(old.clicks)
              /\ SubSeq(new.clicks, 1, Len(old.clicks)) = old.clicks
              /\ new.totalClicks >= old.totalClicks ]_vars

\* A record of the registry got its second click at a later time than its
\* first, next to another record.
C21_Witness ==
    /\ ret.op = "recordClick"
    /\ Len(urls) = 2
    /\ InRegistry(ret.ref)
    /\ Len(objs[ret.ref].clicks) = 2
    /\ objs[ret.ref].clicks[1].timestamp # objs[ret.ref].clicks[2].timestamp

\* C22: a record leaves the registry only in a step of deleteExpiredURLs and
\* only if its expiresAt is before the time of that step; a createShortURL
\* that returns a record makes the registry one record longer and keeps the
\* others; every other step (recordClick before and after its await,
\* getAllURLs, every call that throws, the clock) leaves the set of records
\* of the registry as it is.
C22_SweepSoleDeletion ==
    [][ /\ \A ref \in Range(urls) \ Range(urls') :
              SweepStep /\ now > DateParse(objs[ref].expiresAt)
        /\ (CreateStep /\ ret'.error = "") =>
              /\ Len(urls') = Len(urls) + 1
              /\ Range(urls') = Range(urls) \cup {ret'.ref}
              /\ ret'.ref \notin Range(urls)
        /\ ~ (CreateStep /\ ret'.error = "") /\ ~ SweepStep =>
              /\ Range(urls') = Range(urls)
              /\ Len(urls') = Len(urls) ]_vars

\* A sweep removed both records of the registry, and both are still in the
\* heap.
C22_Witness ==
    /\ ret.op = "deleteExpiredURLs"
    /\ ret.count = 2
    /\ urls = <<>>
    /\ Len(objs) = 2

\* C23: for a code that no record of the registry has, getURLByShortCode
\* returns undefined (0) and recordClick throws 'URL not found', suspends no
\* call and changes neither the registry nor the blob.
C23_UnknownCodeNotFound ==
    [][ now' = now =>
        \A shortCode \in CodeStrings :
            WithCode(urls, objs, shortCode) = {} =>
                /\ getURLByShortCode(shortCode) = 0
                /\ \A source \in Sources :
                      recordClick(shortCode, source) =>
                        /\ ret' = Threw("recordClick", ErrNotFound)
                        /\ UNCHANGED <<objs, urls, stored, pending, started, failures>> ]_vars

\* A recordClick threw 'URL not found' on a registry that holds a record
\* that is not expired, and one that a sweep removed is in the heap.
C23_Witness ==
    /\ ret = Threw("recordClick", ErrNotFound)
    /\ Len(urls) = 1
    /\ Len(objs) = 2
    /\ ~ isURLExpired(Records[1])

\* C24: createShortURL with a valid URL, a validity that is a positive
\* integer and a customShortCode that is a string, the empty string
\* included, throws the format error when the string does not match
\* /^[a-zA-Z0-9]+$/ or is longer than 20, and returns a record with that
\* string as its shortCode when it matches and no record has it; and every
\* record of the registry has a shortCode of 1 to 20 alphanumeric characters
\* and the shortURL of the base prefix, '/' and the shortCode.
C24_CustomCodeChecked ==
    [][ /\ CreateStep =>
            \A code \in CodeStrings, originalURL \in URLInputs, n \in {1, 2} :
                ( /\ isValidURL(originalURL)
                  /\ createShortURL(originalURL, Custom(code), [t |-> "int", n |-> n]) )
                => /\ (~ MatchesAlnum(code) \/ Len(code) > 20) =>
                        ret'.error = ErrInvalidShortcodeFormat
                   /\ (MatchesAlnum(code) /\ Len(code) <= 20
                            /\ WithCode(urls, objs, code) = {}) =>
                        ret'.error = "" /\ objs'[ret'.ref].shortCode = code
        /\ \A i \in 1..Len(urls') :
            LET rec == objs'[urls'[i]]
            IN  /\ MatchesAlnum(rec.shortCode)
                /\ Len(rec.shortCode) <= 20
                /\ rec.shortURL = <<"http://localhost:3000/">> \o rec.shortCode ]_vars

\* The codes of six equal characters that no record of the registry has.
UnusedCodes ==
    { c \in { [i \in 1..6 |-> chars[d + 1]] : d \in 0..MaxDraw } :
        WithCode(urls, objs, c) = {} }

\* C25: the loop of createShortURL draws codes until one is held by no
\* record, however many passes that takes: with a fair Math.random() a loop
\* that runs while some code is unused comes to its exit, the code it exits
\* with is held by no record, and no pass of the loop changes the registry
\* or the blob.
C25_LoopTerminates ==
    /\ [](gen.pc = "exit" => WithCode(urls, objs, gen.shortCode) = {})
    /\ [][gen.pc = "loop" => UNCHANGED <<urls, objs, stored>>]_vars
    /\ (gen.pc = "loop" /\ UnusedCodes # {}) ~> (gen.pc = "exit")

\* The loop has drawn the code of a record of the registry and goes round
\* again, while another code is unused.
C25_Witness ==
    /\ gen.pc = "loop"
    /\ WithCode(urls, objs, gen.shortCode) # {}
    /\ UnusedCodes # {}

\* C26: a call of the registry (the constructor with loadURLs,
\* createShortURL, recordClick before and after its await, with its
\* getURLByShortCode, getAllURLs, deleteExpiredURLs) during which the logger
\* fails to store its entry ends as the call does by itself: it does not
\* throw the logger's exception, and its result, the registry and the
\* records blob after it are those of the call without the logger.
C26_SinkFailureAbsorbed ==
    [][ sinkFailures' # sinkFailures =>
        /\ ret'.error # ErrQuota
        /\ constructor \/ ServiceCall
        /\ appLogs' = appLogs ]_vars

\* recordClick returned its record with the click although the logger could
\* not store the entry of that call: the log blob is behind the log.
C26_Witness ==
    /\ sinkFailures = 1
    /\ ret.op = "recordClick"
    /\ ret.error = ""
    /\ objs[ret.ref].totalClicks = 1
    /\ logs[1].message = "recordClick"
    /\ \A i \in 1..Len(appLogs.recs) : appLogs.recs[i].n < logs[1].n

\* The first (newest) entries of the log, as many as the blob gets.
NewestLogs(all) == SubSeq(all, 1, Min(persistedLogs, Len(all)))

\* The log is bounded and newest first: after a log call the log has at most
\* maxLogs entries, the entry of the call first and the previous log behind
\* it without the entries past maxLogs; the records blob is left alone.
LogBounded ==
    /\ Len(logs') = Min(maxLogs, Len(logs) + 1)
    /\ logs'[1].n = logCalls + 1
    /\ SubSeq(logs', 2, Len(logs')) = SubSeq(logs, 1, Len(logs') - 1)
    /\ \A i \in 1..Len(logs') : logs'[i].n = logs'[1].n - i + 1
    /\ stored' = stored

\* C28 as the spec states it: after any sequence of log calls the log holds
\* at most 1000 entries, newest first with the oldest dropped, the blob
\* under the log key holds exactly the first min(100, length) entries of
\* the log in the same order, and no log call changes the persisted records.
C28_Original ==
    [][ /\ LogBounded
        /\ appLogs'.recs = NewestLogs(logs') ]_vars

\* C28, amended: after any sequence of log calls the log holds at most 1000
\* entries, newest first with the oldest dropped, and no log call changes
\* the persisted records; a log call whose write succeeds leaves under the
\* log key exactly the first min(100, length) entries of the log in the
\* same order, and a log call whose write fails leaves the log blob as it
\* was before the call, one entry or more behind the log.
C28_LogBounded ==
    [][ /\ LogBounded
        /\ IF sinkFailures' = sinkFailures
           THEN appLogs' = [kind |-> "array", recs |-> NewestLogs(logs')]
           ELSE appLogs' = appLogs /\ appLogs.recs # NewestLogs(logs') ]_vars

\* The log is full and has dropped its oldest entry, and the write of the
\* last call failed: the blob still starts at the entry before.
C28_Witness ==
    /\ Len(logs) = maxLogs
    /\ logs[maxLogs].n > 1
    /\ sinkFailures = 1
    /\ Len(appLogs.recs) = persistedLogs
    /\ appLogs.recs[1] = logs[2]

----------------------------------------------------------------------------
(* The redirect page (RedirectHandler, src/src/pages/Statistics.jsx        *)
(* lines 289-339) on the registry.  Its calls of the logger are left out:  *)
(* Logger.log neither throws nor touches the registry.                     *)

\* The short codes of the route /:shortCode.
RouteCodes == { generateShortCode(d) : d \in 0..MaxDraw }

\* The creations that go on while the page is used.
RedirectCreateInputs ==
    { in \in CreateInputs :
        /\ isValidURL(in[1])
        /\ in[2] \in {NoCode, Custom(generateShortCode(0))}
        /\ in[3] = [t |-> "int", n |-> 1] }

\* The page is mounted for a short code: status 'loading', urlData null, and
\* the effect that calls handleRedirect is due.
Mount(shortCode) ==
    /\ handler.pc \in {"idle", "done"}
    /\ handler' = [ pc |-> "mounted", status |-> "loading", shortCode |-> shortCode,
                    url |-> 0, urlData |-> 0 ]
    /\ UNCHANGED <<now, ticks, objs, urls, stored, pending, started, completed,
                   failures, ret>>

\* handleRedirect up to its call of recordClick: the lookup, setStatus
\* ('notfound') and return for no record, setStatus('expired') and return
\* for a record that isURLExpired.
HandlerCheck ==
    /\ handler.pc = "mounted"
    /\ LET url == getURLByShortCode(handler.shortCode)
       IN  handler' =
             IF url = 0
             THEN [handler EXCEPT !.pc = "done", !.status = "notfound"]
             ELSE IF isURLExpired(objs[url])
             THEN [handler EXCEPT !.pc = "done", !.status = "expired", !.url = url]
             ELSE [handler EXCEPT !.pc = "checked", !.url = url]
    /\ UNCHANGED <<now, ticks, objs, urls, stored, pending, started, completed,
                   failures, ret>>

\* handleRedirect whose catch sets 'redirecting'.
HandlerRecordClickCatchRedirects ==
    /\ handler.pc = "checked"
    /\ recordClick(handler.shortCode, "direct")
    /\ handler' =
         IF pending' = pending
         THEN [handler EXCEPT !.pc = "done", !.status = "redirecting"]
         ELSE [handler EXCEPT !.pc = "awaiting"]

\* await urlService.recordClick(shortCode, 'direct'), up to the await inside
\* recordClick.  recordClick looks the code up and reads the clock again; its
\* throw rejects the promise, and the catch of handleRedirect sets
\* 'notfound'.
HandlerRecordClick ==
    /\ handler.pc = "checked"
    /\ recordClick(handler.shortCode, "direct")
    /\ handler' =
         IF pending' = pending
         THEN [handler EXCEPT !.pc = "done", !.status = "notfound"]
         ELSE [handler EXCEPT !.pc = "awaiting"]

\* recordClick resumes and returns, then setUrlData(url) and
\* setStatus('redirecting').
HandlerResume ==
    /\ handler.pc = "awaiting"
    /\ \E call \in Calls : RecordClickResume(call)
    /\ handler' = [handler EXCEPT !.pc = "done", !.urlData = handler.url,
                                  !.status = "redirecting"]

InitRedirect == Init

\* Between the two checks of expiry nothing else runs, but the clock can go
\* on by a millisecond (each check reads new Date()); while recordClick
\* awaits, other calls run.
NextRedirect ==
    \/ Tick /\ (handler.pc = "checked" => now' = now + 1) /\ UNCHANGED rest
    \/ \E in \in RedirectCreateInputs :
            /\ handler.pc # "checked"
            /\ createShortURL(in[1], in[2], in[3])
            /\ UNCHANGED rest
    \/ handler.pc # "checked" /\ deleteExpiredURLs /\ UNCHANGED rest
    \/ \E shortCode \in RouteCodes :
            Mount(shortCode) /\ UNCHANGED <<gen, logs, appLogs, sinkFailures, form>>
    \/ HandlerCheck /\ UNCHANGED <<gen, logs, appLogs, sinkFailures, form>>
    \/ HandlerRecordClick /\ UNCHANGED <<gen, logs, appLogs, sinkFailures, form>>
    \/ HandlerResume /\ UNCHANGED <<gen, logs, appLogs, sinkFailures, form>>

SpecRedirect == InitRedirect /\ [][NextRedirect]_vars

\* A step of the page or of the registry appends a click to some record.
ClickAppended == \E r \in 1..Len(objs) : objs'[r].clicks # objs[r].clicks

\* C29: a run of handleRedirect comes to 'redirecting' only in the step in
\* which the recordClick it awaited for its code returns its record: that
\* step appends exactly one click, to the record the run looked up, and
\* sets urlData to that record; no other step of a run appends a click, so
\* a run that ends 'notfound' or 'expired' has appended none, and status
\* goes from 'loading' to nothing else but these three.
C29_RedirectAfterClick ==
    [][ /\ (handler'.status = "redirecting" /\ handler' # handler) =>
            /\ handler.status = "loading"
            /\ handler.pc = "awaiting"
            /\ handler.url # 0
            /\ objs[handler.url].shortCode = handler.shortCode
            /\ ret' = Returned("recordClick", handler.url, 0, ret'.saved)
            /\ handler'.urlData = handler.url
            /\ \E click \in [id : {now}, timestamp : {toISOString(now)}, source : {"direct"},
                              location : Range(mockLocations),
                              userAgent : {"navigator.userAgent"}] :
                    objs' = [objs EXCEPT ![handler.url].clicks = Append(@, click),
                                         ![handler.url].totalClicks = @ + 1]
        /\ ClickAppended => handler'.status = "redirecting" /\ handler' # handler
        /\ (handler'.pc = "done" /\ handler'.status # "redirecting") =>
            /\ handler'.status \in {"notfound", "expired"}
            /\ handler'.urlData = 0
            /\ ~ ClickAppended
        /\ handler'.pc # "done" => handler'.status = "loading" /\ handler'.urlData = 0 ]_vars

\* A second run for the same code has come to 'redirecting': the record the
\* page shows has the clicks of both runs.
C29_Witness ==
    /\ handler.pc = "done"
    /\ handler.status = "redirecting"
    /\ handler.urlData # 0
    /\ objs[handler.urlData].shortCode = handler.shortCode
    /\ objs[handler.urlData].totalClicks = 2

\* C30: a run of handleRedirect ends 'notfound' only when no record has the
\* short code, and ends 'expired' whenever a record has the code and is past
\* its expiry when the run attempts the click, be it at the check of
\* handleRedirect or at the check inside recordClick.
C30_ClassifiedByCause ==
    [][ (handler.pc \in {"mounted", "checked"} /\ handler'.pc = "done") =>
            LET url == getURLByShortCode(handler.shortCode)
            IN  /\ handler'.status = "notfound" => url = 0
                /\ (url # 0 /\ isURLExpired(objs[url])) => handler'.status = "expired" ]_vars

\* deleteExpiredURLs has removed the record that held the code, and no
\* record of the registry holds it now.
Swept(code) ==
    /\ \E r \in Refs : objs[r].shortCode = code /\ ~ InRegistry(r)
    /\ WithCode(urls, objs, code) = {}

\* C31: createShortURL with a valid URL, a valid validity and the custom
\* code of a record fails with ShortcodeConflict and changes nothing while
\* the record is in the registry, expired or not; once deleteExpiredURLs has
\* removed the record the same call succeeds, and the registry then holds
\* exactly one record with the code, the one returned, with no clicks.
C31_CodeReusable ==
    [][ CreateStep =>
            \A code \in GeneratedCodes, originalURL \in URLInputs, n \in {1, 2} :
                ( /\ isValidURL(originalURL)
                  /\ createShortURL(originalURL, Custom(code), [t |-> "int", n |-> n]) )
                => /\ WithCode(urls, objs, code) # {} =>
                        /\ ret' = Threw("createShortURL", ErrShortcodeConflict)
                        /\ UNCHANGED <<urls, objs, stored>>
                   /\ Swept(code) =>
                        /\ ret'.error = ""
                        /\ Cardinality(WithCode(urls', objs', code)) = 1
                        /\ ret'.ref \in Range(urls')
                        /\ objs'[ret'.ref].shortCode = code
                        /\ objs'[ret'.ref].clicks = <<>>
                        /\ objs'[ret'.ref].totalClicks = 0 ]_vars

\* A code has been assigned again after the sweep of its first record: the
\* swept record has a click, the record in the registry has none.
C31_Witness ==
    /\ ret.op = "createShortURL"
    /\ ret.error = ""
    /\ InRegistry(ret.ref)
    /\ objs[ret.ref].clicks = <<>>
    /\ \E r \in Refs :
        /\ ~ InRegistry(r)
        /\ objs[r].shortCode = objs[ret.ref].shortCode
        /\ objs[r].totalClicks = 1

----------------------------------------------------------------------------
(* The form (URLForm, src/src/components/URLResults.jsx lines 149-290) on  *)
(* the registry.  Its calls of the logger and of toast are left out.       *)

\* urls.length >= 5
MaxFields == 5
\* The model edits the inputs of a form of at most two fields, and adds a
\* third field to a form whose fields are blank: a form of three fields or
\* more has blank fields only.
MaxEditedFields == 2
\* The clock of the form's session goes on by a millisecond at a time.
MaxFormNow == 1

\* What onChange gives updateURL: e.target.value for originalURL and
\* customShortCode; parseInt(e.target.value) || '' for validityMinutes, an
\* integer or the empty string.
FormInputs ==
    ({"originalURL"} \X { [scheme |-> "", host |-> ""],
                          [scheme |-> "https", host |-> "example.com"],
                          [scheme |-> "", host |-> "not-a-url"] })
    \cup ({"validityMinutes"} \X { [t |-> "int", n |-> DefaultValidity],
                                   [t |-> "empty", n |-> 0],
                                   [t |-> "huge", n |-> 0] })
    \cup ({"customShortCode"} \X { <<>>, generateShortCode(0), <<"a", "-">> })

\* Number(url.validityMinutes): the empty string gives 0.
Number(validityMinutes) ==
    IF validityMinutes.t = "empty" THEN [t |-> "int", n |-> 0] ELSE validityMinutes

\* !url.originalURL.trim()
IsBlank(url) == url.scheme = "" /\ url.host = ""

FormFrame ==
    UNCHANGED <<now, ticks, objs, urls, stored, pending, started, completed, failures, ret,
                gen, logs, appLogs, sinkFailures, handler>>

addURLField ==
    /\ form.pc = "idle"
    /\ form' = IF Len(form.urls) >= MaxFields THEN form
               ELSE [form EXCEPT !.urls = Append(@, BlankField(DateNow))]
    /\ FormFrame

\* setUrls(urls.filter(url => url.id !== id))
removeURLField(id) ==
    /\ form.pc = "idle"
    /\ form' = IF Len(form.urls) = 1 THEN form
               ELSE [form EXCEPT !.urls = SelectSeq(@, LAMBDA url : url.id # id)]
    /\ FormFrame

\* setUrls(urls.map(url => url.id === id ? { ...url, [field]: value } : url))
updateURL(id, field, value) ==
    /\ form.pc = "idle"
    /\ form' = [form EXCEPT !.urls =
                    [i \in 1..Len(@) |-> IF @[i].id = id THEN [@[i] EXCEPT ![field] = value]
                                         ELSE @[i]]]
    /\ FormFrame

\* urls.forEach((url, index) => ...) of validateForm: the errors of each field.
fieldErrors(fields) ==
    { <<index, "Original URL is required">> :
        index \in { i \in 1..Len(fields) : IsBlank(fields[i].originalURL) } }
    \cup { <<index, "Invalid URL format">> :
        index \in { i \in 1..Len(fields) :
                     ~ IsBlank(fields[i].originalURL) /\ ~ isValidURL(fields[i].originalURL) } }
    \cup { <<index, "Validity must be a positive integer">> :
        index \in { i \in 1..Len(fields) :
                     \/ ~ IsInteger(Number(fields[i].validityMinutes))
                     \/ IsNotPositive(Number(fields[i].validityMinutes)) } }
    \cup { <<index, ErrInvalidShortcodeFormat>> :
        index \in { i \in 1..Len(fields) :
                     /\ fields[i].customShortCode # <<>>
                     /\ \/ ~ MatchesAlnum(fields[i].customShortCode)
                        \/ Len(fields[i].customShortCode) > 20 } }

\* validateForm: the errors, each with the index of its field (0 for the
\* error of the duplicates).
validateForm(fields) ==
    LET customCodes == SelectSeq([i \in 1..Len(fields) |-> fields[i].customShortCode],
                                 LAMBDA code : code # <<>>)
        duplicates == { i \in 1..Len(customCodes) :
                          \E j \in 1..(i - 1) : customCodes[j] = customCodes[i] }
    IN  fieldErrors(fields)
        \cup (IF duplicates # {} THEN {<<0, "Duplicate custom shortcodes are not allowed">>}
              ELSE {})

\* handleSubmit up to its loop: it returns when validateForm has errors.
\* The model starts a run that has room for a record per field.
SubmitStart ==
    /\ form.pc = "idle"
    /\ Len(objs) + Len(form.urls) <= MaxObjs
    /\ form' = [form EXCEPT !.pc = IF validateForm(form.urls) # {} THEN "idle" ELSE "loop",
                            !.index = 0, !.results = <<>>, !.passed = <<>>]
    /\ FormFrame

\* One pass of for (const url of urls): createShortURL in try/catch, and
\* results.push(result) when it returns.
SubmitField ==
    /\ form.pc = "loop"
    /\ form.index < Len(form.urls)
    /\ LET url == form.urls[form.index + 1]
       IN  createShortURL(url.originalURL,
                          IF url.customShortCode # <<>> THEN Custom(url.customShortCode)
                          ELSE NoCode,
                          Number(url.validityMinutes))
    /\ form' = [form EXCEPT !.index = @ + 1,
                            !.results = IF ret'.error = "" THEN Append(@, ret'.ref) ELSE @]
    /\ UNCHANGED <<gen, logs, appLogs, sinkFailures, handler>>

\* handleSubmit after its loop: with a result it resets the fields and calls
\* onURLsCreated(results).
SubmitEnd ==
    /\ form.pc = "loop"
    /\ form.index = Len(form.urls)
    /\ form' = IF form.results # <<>>
               THEN [form EXCEPT !.pc = "idle", !.urls = <<BlankField(DateNow)>>,
                                 !.passed = form.results]
               ELSE [form EXCEPT !.pc = "idle"]
    /\ FormFrame

InitForm == Init

\* handleSubmit has no await: no other call runs during its loop.
NextForm ==
    \/ now < MaxFormNow /\ Tick /\ now' = now + 1
            /\ UNCHANGED <<gen, logs, appLogs, sinkFailures, handler, form>>
    \/ /\ Len(form.urls) >= MaxEditedFields =>
            \A i \in 1..Len(form.urls) : form.urls[i] = BlankField(form.urls[i].id)
       /\ addURLField
    \/ \E i \in 1..Len(form.urls) : removeURLField(form.urls[i].id)
    \/ \E i \in 1..Len(form.urls), in \in FormInputs :
            /\ Len(form.urls) <= MaxEditedFields
            /\ updateURL(form.urls[i].id, in[1], in[2])
    \/ SubmitStart
    \/ SubmitField
    \/ SubmitEnd

SpecForm == InitForm /\ [][NextForm]_vars

\* A form that validateForm is to refuse: a field with a missing or invalid
\* URL, with a validity that is no positive integer or with a custom code of
\* the wrong format, or two fields with the same custom code.
HasFormError(fields) ==
    \/ \E i \in 1..Len(fields) :
        \/ ~ isValidURL(fields[i].originalURL)
        \/ ~ PositiveInteger(Number(fields[i].validityMinutes))
        \/ /\ fields[i].customShortCode # <<>>
           /\ ~ (MatchesAlnum(fields[i].customShortCode) /\ Len(fields[i].customShortCode) <= 20)
    \/ \E i, j \in 1..Len(fields) :
        i # j /\ fields[i].customShortCode # <<>>
              /\ fields[i].customShortCode = fields[j].customShortCode

\* The steps of handleSubmit: with a form in error no call of createShortURL
\* and no change of the registry; otherwise a call of createShortURL per
\* field in the order of the fields, a throw or not, results being the
\* records created so far in their order, and at the end onURLsCreated
\* with results.
SubmitSteps ==
    /\ (form.pc = "idle" /\ HasFormError(form.urls)) =>
            form'.pc = "idle" /\ UNCHANGED <<objs, urls, stored, ret>>
    /\ (form.pc = "idle" /\ form'.pc = "loop") =>
            /\ form'.index = 0 /\ form'.results = <<>>
            /\ UNCHANGED <<objs, urls, stored, ret>>
    /\ (form.pc = "loop" /\ form' # form) =>
            IF form.index < Len(form.urls)
            THEN LET url == form.urls[form.index + 1]
                 IN  /\ createShortURL(url.originalURL,
                            IF url.customShortCode # <<>> THEN Custom(url.customShortCode)
                            ELSE NoCode,
                            Number(url.validityMinutes))
                     /\ form'.pc = "loop"
                     /\ form'.urls = form.urls
                     /\ form'.index = form.index + 1
                     /\ form'.results = IF urls' = urls THEN form.results
                                        ELSE Append(form.results, urls'[Len(urls')])
            ELSE /\ form'.pc = "idle"
                 /\ form.results = SubSeq(urls, Len(urls) - Len(form.results) + 1, Len(urls))
                 /\ form'.passed = form.results
                 /\ UNCHANGED <<objs, urls, stored, ret>>

\* C32: handleSubmit calls createShortURL for no field and leaves the
\* registry unchanged when validateForm reports an error; otherwise it calls
\* createShortURL once per field in the order of the fields, goes on after a
\* call that throws, and passes to onURLsCreated exactly the records created,
\* in their order; and the form has between 1 and 5 fields whatever
\* addURLField and removeURLField are called.
C32_BatchSubmission ==
    [][ /\ SubmitSteps
        /\ Len(form'.urls) >= 1
        /\ Len(form'.urls) <= MaxFields ]_vars
====
